---- MODULE Spec2Model ----
(***************************************************************************)
(* The RVE job scheduler and context lifecycle of                          *)
(* drivers/video/rockchip/rve (rve_job.c, rve_drv.c) as a state machine.   *)
(*                                                                         *)
(* Every client thread and the threaded interrupt handler has a program    *)
(* counter; one action is one critical section (irq_lock, ctx->lock or     *)
(* the registry mutex) or one stretch of unlocked code between two of      *)
(* them.  Contexts and jobs live at addresses.  The driver never takes a   *)
(* reference on a context and frees jobs that are still linked, so         *)
(* pointers to freed memory exist: freed memory keeps its last contents    *)
(* until the allocator hands the address out again, which it may do at     *)
(* any later allocation.                                                   *)
(***************************************************************************)
EXTENDS Integers, Sequences, FiniteSets, TLC

\* Addresses a context can be allocated at.
MaxCtx == 2
\* Addresses a job can be allocated at.
MaxJobs == 2
\* Jobs committed over a run of the queue specification.
MaxQJobs == 4
\* The highest priority the walk of rve_job_schedule may count a job up to
\* (job->priority++ has no ceiling in the code).
MaxBump == 14

\* System calls made over a run.
MaxCalls == 3
\* How far job_count and finished_job_count are followed (in a corrupt list
\* the same entry is unlinked and finalized again and again).
MaxCount == 3

NULL == 0
\* &scheduler->todo_list, the head of the circular list.
TodoHead == -1
\* The two priority constants of rve_job.h that rve_job_alloc and
\* rve_job_schedule compare against.
RVE_SCHED_PRIORITY_DEFAULT == 0
RVE_SCHED_PRIORITY_MAX == 6

\* Client threads (each its own process identity, current->pid) and the
\* threaded interrupt handler.
Clients == {"p1", "p2"}
IrqThread == "irq"
AllThreads == Clients \cup {IrqThread}

\* What a client passes to RVE_IOC_CMD_CONFIG (struct rve_user_ctx_t):
\* a priority below, inside and above the clamp, both sync modes, with and
\* without an input fence; regcmd_data stands for the payload contents.
UserCtxInputs ==
    { [priority |-> 0, sync_mode |-> "RVE_SYNC",  in_fence_fd |-> 0, regcmd_data |-> 1],
      [priority |-> 5, sync_mode |-> "RVE_ASYNC", in_fence_fd |-> 0, regcmd_data |-> 2],
      [priority |-> 7, sync_mode |-> "RVE_SYNC",  in_fence_fd |-> 3, regcmd_data |-> 3] }

CtxObjs == 1..MaxCtx
JobObjs == 1..(IF MaxQJobs > MaxJobs THEN MaxQJobs ELSE MaxJobs)
Handles == 1..MaxCtx
Nodes == JobObjs \cup {TodoHead}

VARIABLES
    ctx,          \* struct rve_internal_ctx_t, by address
    idr,          \* ctx_manager->ctx_id_idr: handle -> context (NULL: free)
    ctx_count,    \* ctx_manager->ctx_count
    job,          \* struct rve_job, by address (head.next, head.prev inlined)
    todo_list,    \* scheduler->todo_list: the list head's next and prev
    running_job,  \* scheduler->running_job
    job_count,    \* scheduler->job_count
    hw_job,       \* the job the engine is executing (NULL: idle)
    irq_pending,  \* the completion interrupt is raised and the irq thread not yet run
    th,           \* per thread: program counter and locals
    calls,        \* history: system calls made so far
    last_return   \* history: what the step just taken returned to its caller

vars == <<ctx, idr, ctx_count, job, todo_list, running_job,
          job_count, hw_job, irq_pending, th, calls, last_return>>

sched_vars == <<todo_list, running_job, job_count>>
hw_vars == <<hw_job, irq_pending>>
reg_vars == <<idr, ctx_count>>

\* Memory no context is allocated at (what kzalloc returns, before
\* idr_alloc and kref_init, has the same contents).
ZeroCtx ==
    [live |-> FALSE, id |-> 0, refcount |-> 0, pid |-> "",
     is_running |-> FALSE, finished_job_count |-> 0, cmd_num |-> 0,
     priority |-> 0, sync_mode |-> "RVE_SYNC", in_fence_fd |-> 0,
     regcmd_data |-> NULL,
     signals |-> 0,      \* history: completion signals since the last commit
     reaped |-> FALSE,   \* history: freed by a release that went to the schedulers
     payloads |-> 0]     \* history: regcmd_data buffers kmalloc'ed and not kfree'd

\* The page at address a with no job allocated in it; its list_head is the
\* one INIT_LIST_HEAD leaves.
ZeroJob(a) ==
    [live |-> FALSE, next |-> a, prev |-> a,
     ctx |-> NULL, priority |-> 0, async |-> FALSE, done |-> FALSE, ret |-> 0,
     regcmd_data |-> NULL,
     enq_priority |-> 0, \* history: the priority it was allocated with
     fins |-> 0,         \* history: times rve_internal_ctx_signal counted it
     pops |-> 0]         \* history: times it was taken out of the running slot

ZeroTh ==
    [pc |-> "idle", op |-> "", ret |-> "", ctx |-> NULL, job |-> NULL,
     njob |-> NULL, sjob |-> NULL, sctx |-> NULL, sigret |-> "", cursor |-> 0]

\* No system call or interrupt thread returned in the step just taken.
NoReturn == [t |-> "", op |-> "", from |-> "", ret |-> "", cause |-> "",
             ctx |-> NULL, job |-> NULL]

\* INIT_LIST_HEAD(&scheduler->todo_list) in rve_drv.c: the empty list.
EmptyList == [next |-> TodoHead, prev |-> TodoHead]

InitScheduler ==
    /\ todo_list = EmptyList
    /\ running_job = NULL
    /\ job_count = 0
    /\ hw_job = NULL
    /\ irq_pending = FALSE

Init ==
    /\ ctx = [c \in CtxObjs |-> ZeroCtx]
    /\ idr = [h \in Handles |-> NULL]
    /\ ctx_count = 0
    /\ job = [j \in JobObjs |-> ZeroJob(j)]
    /\ InitScheduler
    /\ th = [t \in AllThreads |-> ZeroTh]
    /\ calls = 0
    /\ last_return = NoReturn

----------------------------------------------------------------------------
(* Memory *)

\* A thread has dereferenced a NULL job, or walks a list that never comes
\* back to its head, with irq_lock held and interrupts off: nothing that
\* needs the scheduler runs after that.
Halted == \E t \in AllThreads : th[t].pc \in {"oops", "lockup"}

\* A thread goes back to user space with a return value.
Return(t, code) == [th[t] EXCEPT !.pc = "idle", !.ret = code]

\* Thread t takes a step that leaves it with locals r; a step that ends the
\* system call is recorded in last_return and clears the locals.
Go(t, r) ==
    /\ ~Halted
    /\ th' = [th EXCEPT ![t] = IF r.pc = "idle" THEN ZeroTh ELSE r]
    /\ calls' = IF th[t].pc = "idle" /\ t \in Clients THEN calls + 1 ELSE calls
    /\ last_return' = IF r.pc = "idle"
                      THEN [t |-> t, op |-> r.op, from |-> th[t].pc, ret |-> r.ret,
                            cause |-> th[t].ret, ctx |-> r.ctx, job |-> r.job]
                      ELSE NoReturn

\* The heap the list functions work on: the jobs and the list head.
Heap == [n \in Nodes |-> IF n = TodoHead THEN todo_list ELSE job[n]]

\* Whether a pointer to job address j is stored anywhere after the step.
JobReferenced(M, j) ==
    \/ \E n \in Nodes \ {j} : M[n].next = j \/ M[n].prev = j
    \/ j \in {running_job', hw_job', last_return'.job}
    \/ \E t \in AllThreads : j \in {th'[t].job, th'[t].njob, th'[t].sjob}

\* Whether a pointer to context address c is stored anywhere after the step.
CtxReferenced(M, c) ==
    \/ \E h \in Handles : idr'[h] = c
    \/ c = last_return'.ctx
    \/ \E t \in AllThreads : c \in {th'[t].ctx, th'[t].sctx}
    \/ \E j \in JobObjs : M[j].ctx = c

\* The jobs and contexts after a step that leaves heap M and contexts C.
\* Freed memory that no pointer is left to has no contents worth telling
\* apart and is kept in one form; freed memory that is still pointed to
\* keeps what it last held.
Mem(M, C) ==
    /\ todo_list' = M[TodoHead]
    /\ job' = [j \in JobObjs |->
                 IF ~M[j].live /\ ~JobReferenced(M, j) THEN ZeroJob(j) ELSE M[j]]
    /\ ctx' = [c \in CtxObjs |->
                 IF ~C[c].live /\ ~CtxReferenced(M, c) THEN ZeroCtx ELSE C[c]]

\* The address an allocation may return: a free address nothing points to
\* (the lowest stands for all of them) or a free address that dangling
\* pointers still name.
JobAddrs(limit) ==
    {a \in 1..limit :
        /\ ~job[a].live
        /\ \/ job[a] # ZeroJob(a)
           \/ \A b \in 1..(a - 1) : job[b] # ZeroJob(b)}
CtxAddrs ==
    {a \in CtxObjs :
        /\ ~ctx[a].live
        /\ \/ ctx[a] # ZeroCtx
           \/ \A b \in 1..(a - 1) : ctx[b] # ZeroCtx}

----------------------------------------------------------------------------
(* include/linux/list.h as the driver uses it *)

INIT_LIST_HEAD(M, e) == [M EXCEPT ![e].next = e, ![e].prev = e]

list_empty(M, head) == M[head].next = head

\* __list_add: next->prev = new; new->next = next; new->prev = prev;
\* prev->next = new, in this order.
list_insert(M, new, prev, next) ==
    LET M1 == [M EXCEPT ![next].prev = new]
        M2 == [M1 EXCEPT ![new].next = next]
        M3 == [M2 EXCEPT ![new].prev = prev]
    IN [M3 EXCEPT ![prev].next = new]

\* list_add(new, head): link new right after head.
list_add(M, new, head) == list_insert(M, new, head, M[head].next)

\* list_add_tail(new, head): link new right before head.
list_add_tail(M, new, head) == list_insert(M, new, M[head].prev, head)

\* list_del_init(entry): __list_del(entry->prev, entry->next), then
\* INIT_LIST_HEAD(entry).
list_del_init(M, e) ==
    LET p == M[e].prev
        n == M[e].next
        M1 == [M EXCEPT ![n].prev = p]
        M2 == [M1 EXCEPT ![p].next = n]
    IN INIT_LIST_HEAD(M2, e)

\* list_first_entry(head).
list_first_entry(M, head) == M[head].next

\* The entries a forward walk from the head meets, at most k of them.
RECURSIVE list_walk(_, _, _)
list_walk(M, pos, k) ==
    IF pos = TodoHead \/ k = 0 THEN <<>>
    ELSE <<pos>> \o list_walk(M, M[pos].next, k - 1)

\* The pending queue, head first, as a forward walk sees it.
Pending == list_walk(Heap, todo_list.next, Cardinality(JobObjs))

\* A forward walk never comes back to the head (the list is corrupt).
ListLoops(M) ==
    LET w == list_walk(M, M[TodoHead].next, Cardinality(JobObjs) + 1)
    IN Len(w) > Cardinality(JobObjs)

\* History counters tell none, one and more than one apart.
Once(n) == IF n >= 1 THEN 2 ELSE 1

Range(s) == {s[i] : i \in 1..Len(s)}

\* The position of job j in sequence s (0 when absent).
IndexOf(s, j) == IF \E i \in 1..Len(s) : s[i] = j
                 THEN CHOOSE i \in 1..Len(s) : s[i] = j /\ \A k \in 1..(i-1) : s[k] # j
                 ELSE 0

Enter(t, op, pc, c) == [ZeroTh EXCEPT !.pc = pc, !.op = op, !.ctx = c]

\* rve_internal_ctx_lookup: idr_find under ctx_manager->lock.
rve_internal_ctx_lookup(id) == idr[id]

----------------------------------------------------------------------------
(* Context registry: RVE_IOC_START_CONFIG and RVE_IOC_CMD_CONFIG *)

\* idr_alloc(&ctx_id_idr, ctx, 1, 0, ...): the lowest free handle from 1.
idr_alloc == CHOOSE h \in Handles : idr[h] = NULL /\ \A k \in 1..(h-1) : idr[k] # NULL

\* rve_internal_ctx_alloc_to_get_idr_id: kzalloc, idr_alloc, ctx_count++,
\* kref_init, debug_info.pid = current->pid, all under ctx_manager->lock.
rve_internal_ctx_alloc_to_get_idr_id(t) ==
    /\ th[t].pc = "idle"
    /\ calls < MaxCalls
    /\ \E h \in Handles : idr[h] = NULL
    /\ \E c \in CtxAddrs :
         LET h == idr_alloc IN
         /\ idr' = [idr EXCEPT ![h] = c]
         /\ ctx_count' = ctx_count + 1
         /\ Go(t, [Return(t, "OK") EXCEPT !.op = "start", !.ctx = c])
         /\ UNCHANGED <<running_job, job_count, hw_vars>>
         /\ Mem(Heap, [ctx EXCEPT ![c] = [ZeroCtx EXCEPT !.live = TRUE, !.id = h,
                                                        !.refcount = 1, !.pid = t]])

\* rve_internal_ctx_alloc_to_get_idr_id when kzalloc fails: -ENOMEM.
ctx_alloc_fail(t) ==
    /\ th[t].pc = "idle"
    /\ calls < MaxCalls
    /\ Go(t, [Return(t, "ENOMEM") EXCEPT !.op = "start"])
    /\ UNCHANGED <<reg_vars, running_job, job_count, hw_vars>>
    /\ Mem(Heap, ctx)

\* rve_internal_ctx_alloc_to_get_idr_id when idr_alloc assigns no handle
\* (-ENOMEM or -ENOSPC): the negative value is stored in ctx->id and
\* returned, after ctx_count++ and kref_init; the context is in no idr slot
\* and nothing frees it.
ctx_alloc_no_handle(t) ==
    /\ th[t].pc = "idle"
    /\ calls < MaxCalls
    /\ \E c \in CtxAddrs :
         /\ ctx_count' = ctx_count + 1
         /\ Go(t, [Return(t, "ENOMEM") EXCEPT !.op = "start", !.ctx = c])
         /\ UNCHANGED <<idr, running_job, job_count, hw_vars>>
         /\ Mem(Heap, [ctx EXCEPT ![c] = [ZeroCtx EXCEPT !.live = TRUE, !.id = -1,
                                                        !.refcount = 1, !.pid = t]])

\* rve_job_config_by_user_ctx, up to the lookup: -EINVAL for an unknown handle.
rve_job_config_by_user_ctx(t) ==
    /\ th[t].pc = "idle"
    /\ calls < MaxCalls
    /\ \E id \in Handles :
         LET c == rve_internal_ctx_lookup(id) IN
         Go(t, IF c = NULL THEN [Return(t, "EINVAL") EXCEPT !.op = "config"]
               ELSE Enter(t, "config", "cfg_check", c))
    /\ UNCHANGED <<reg_vars, running_job, job_count, hw_vars>>
    /\ Mem(Heap, ctx)

\* rve_job_config_by_user_ctx going on to its stores whatever is_running is.
config_check_none(t) ==
    /\ th[t].pc = "cfg_check"
    /\ Go(t, [th[t] EXCEPT !.pc = "cfg_write"])
    /\ UNCHANGED <<reg_vars, running_job, job_count, hw_vars>>
    /\ Mem(Heap, ctx)

\* ... the is_running test under ctx->lock: -EFAULT when the context runs.
config_check_running(t) ==
    /\ th[t].pc = "cfg_check"
    /\ Go(t, IF ctx[th[t].ctx].is_running THEN Return(t, "EFAULT")
             ELSE [th[t] EXCEPT !.pc = "cfg_write"])
    /\ UNCHANGED <<reg_vars, running_job, job_count, hw_vars>>
    /\ Mem(Heap, ctx)

\* The fields rve_job_config_by_user_ctx stores (cmd_num is forced to 1).
config_store(c, u) ==
    [ctx[c] EXCEPT !.sync_mode = u.sync_mode, !.cmd_num = 1,
                   !.regcmd_data = u.regcmd_data, !.priority = u.priority,
                   !.in_fence_fd = u.in_fence_fd, !.payloads = @ + 1]

\* ... kmalloc, copy_from_user and the stores, with no lock held.
config_write(t) ==
    /\ th[t].pc = "cfg_write"
    /\ Go(t, Return(t, "OK"))
    /\ UNCHANGED <<reg_vars, running_job, job_count, hw_vars>>
    /\ \E u \in UserCtxInputs :
         Mem(Heap, [ctx EXCEPT ![th[t].ctx] = config_store(th[t].ctx, u)])

\* ... kmalloc fails (-ENOMEM) or copy_from_user fails (-EFAULT, through
\* err_free_regcmd_data): nothing is stored.
config_copy_fail(t) ==
    /\ th[t].pc = "cfg_write"
    /\ \E e \in {"ENOMEM", "EFAULT"} : Go(t, Return(t, e))
    /\ UNCHANGED <<reg_vars, running_job, job_count, hw_vars>>
    /\ Mem(Heap, ctx)

----------------------------------------------------------------------------
(* Job scheduler: rve_job_schedule, rve_job_next, rve_job_run *)

\* Where rve_job_next returns to: its caller is fixed by the operation the
\* thread is in (rve_job_schedule in a commit, rve_job_finish_and_next in a
\* cancel / process exit or in the interrupt thread).
next_return(t) ==
    CASE th[t].op = "commit" ->
             [th[t] EXCEPT !.pc = "cmt_ret", !.njob = NULL, !.sjob = NULL, !.sigret = ""]
      [] th[t].op \in {"cancel", "release"} ->
             [th[t] EXCEPT !.pc = "rel_kfree", !.njob = NULL, !.sjob = NULL, !.sigret = ""]
      [] OTHER -> Return(t, "IRQ_HANDLED")

\* ctx->priority taken as it is when positive.
job_priority_unclamped(p) == IF p > 0 THEN p ELSE 0

\* rve_job_alloc's clamp of ctx->priority (job->priority stays 0 otherwise).
job_priority(p) ==
    IF p > 0
    THEN IF p > RVE_SCHED_PRIORITY_MAX THEN RVE_SCHED_PRIORITY_MAX ELSE p
    ELSE 0

\* The body of list_for_each_entry in rve_job_schedule at job_pos, then the
\* step to job_pos->head.next, from position pos on: link the new job j
\* behind the first entry of strictly lower priority, and count up the
\* priority of that entry and of every entry visited after it.  A walk of
\* more than k entries has not come back to the head.
RECURSIVE schedule_walk(_, _, _, _, _)
schedule_walk(M, j, pos, first_match, k) ==
    IF pos = TodoHead THEN [M |-> M, first_match |-> first_match, back |-> TRUE]
    ELSE IF k = 0 THEN [M |-> M, first_match |-> first_match, back |-> FALSE]
    ELSE LET hit == M[j].priority > M[pos].priority /\ ~first_match
             M1 == IF hit THEN list_add(M, j, pos) ELSE M
             M2 == IF first_match \/ hit
                   THEN [M1 EXCEPT ![pos].priority = @ + 1] ELSE M1
         IN schedule_walk(M2, j, M2[pos].next, first_match \/ hit, k - 1)

\* The insertion with the cheap path linking the job at the head.
schedule_insert_at_head(M, j) ==
    IF list_empty(M, TodoHead) \/ M[j].priority = RVE_SCHED_PRIORITY_DEFAULT
    THEN [M |-> list_add(M, j, TodoHead), back |-> TRUE]
    ELSE LET w == schedule_walk(M, j, M[TodoHead].next, FALSE, Cardinality(JobObjs) + 1)
         IN [M |-> IF w.back /\ ~w.first_match THEN list_add_tail(w.M, j, TodoHead) ELSE w.M,
             back |-> w.back]

\* The insertion of rve_job_schedule under irq_lock: the heap after job j
\* is linked into the todo_list, and whether the walk came back.
schedule_insert(M, j) ==
    IF list_empty(M, TodoHead) \/ M[j].priority = RVE_SCHED_PRIORITY_DEFAULT
    THEN [M |-> list_add_tail(M, j, TodoHead), back |-> TRUE]
    ELSE LET w == schedule_walk(M, j, M[TodoHead].next, FALSE, Cardinality(JobObjs) + 1)
         IN [M |-> IF w.back /\ ~w.first_match THEN list_add_tail(w.M, j, TodoHead) ELSE w.M,
             back |-> w.back]

\* rve_job_timeout_clean's test on the running job.
timeout_clean_fires ==
    running_job # NULL /\ job[running_job].async

\* rve_job_schedule: rve_job_timeout_clean, then the insertion and
\* job_count++ under irq_lock; rve_job_next follows.  A walk that never
\* comes back to the head spins with irq_lock held.
rve_job_schedule(t) ==
    /\ th[t].pc \in {"schedule", "sched_enq"}
    /\ IF th[t].pc = "schedule" /\ timeout_clean_fires
       THEN /\ running_job' = NULL
            /\ hw_job' = NULL
            /\ Go(t, [th[t] EXCEPT !.pc = "sig", !.sjob = running_job, !.sigret = "sched_enq"])
            /\ UNCHANGED <<reg_vars, job_count, irq_pending>>
            /\ Mem(Heap, ctx)
       ELSE LET s == schedule_insert(Heap, th[t].job) IN
            /\ \A n \in JobObjs : s.M[n].priority <= MaxBump
            /\ job_count < MaxCount
            /\ job_count' = IF s.back THEN job_count + 1 ELSE job_count
            /\ Go(t, [th[t] EXCEPT !.pc = IF s.back THEN "next" ELSE "lockup"])
            /\ UNCHANGED <<reg_vars, running_job, hw_vars>>
            /\ Mem(IF s.back THEN s.M ELSE Heap, ctx)

\* The queue test of rve_job_next alone.
next_queue_empty == list_empty(Heap, TodoHead)

\* What rve_job_next tests first under irq_lock.
next_returns_at_once == running_job # NULL \/ list_empty(Heap, TodoHead)

\* rve_job_next, the critical section at next_job: return when a job runs or
\* nothing is queued, else unlink the head and install it as running.
rve_job_next(t) ==
    /\ th[t].pc = "next"
    /\ IF next_returns_at_once
       THEN /\ Go(t, next_return(t))
            /\ UNCHANGED <<running_job, job_count>>
            /\ UNCHANGED <<reg_vars, hw_vars>>
            /\ Mem(Heap, ctx)
       ELSE LET j == list_first_entry(Heap, TodoHead) IN
            /\ job_count > -MaxCount
            /\ job_count' = job_count - 1
            /\ running_job' = j
            /\ Go(t, [th[t] EXCEPT !.pc = "next_run", !.njob = j])
            /\ UNCHANGED <<reg_vars, hw_vars>>
            /\ Mem(list_del_init(Heap, j), ctx)

\* rve_job_run succeeds: the engine is programmed and started, job->ret = 0.
rve_job_run_ok(t) ==
    /\ th[t].pc = "next_run"
    /\ hw_job' = th[t].njob
    /\ Go(t, next_return(t))
    /\ UNCHANGED <<reg_vars, running_job, job_count, irq_pending>>
    /\ Mem([Heap EXCEPT ![th[t].njob].ret = 0], ctx)

\* rve_job_run fails before the engine starts (power, init_reg, set_reg).
rve_job_run_fail(t) ==
    /\ th[t].pc = "next_run"
    /\ Go(t, [th[t] EXCEPT !.pc = "next_fail"])
    /\ UNCHANGED <<reg_vars, running_job, job_count, hw_vars>>
    /\ Mem([Heap EXCEPT ![th[t].njob].ret = -1], ctx)

\* The failure path of rve_job_next leaving the running slot as it is.
next_fail_keeps_slot(t) ==
    /\ th[t].pc = "next_fail"
    /\ Go(t, [th[t] EXCEPT !.pc = "sig", !.sjob = th[t].njob, !.njob = NULL, !.sigret = "next"])
    /\ UNCHANGED <<reg_vars, running_job, job_count, hw_vars>>
    /\ Mem(Heap, ctx)

\* ... "some error before hw run": running_job = NULL under irq_lock, then
\* rve_internal_ctx_signal(job) and goto next_job.
rve_job_next_fail(t) ==
    /\ th[t].pc = "next_fail"
    /\ running_job' = NULL
    /\ Go(t, [th[t] EXCEPT !.pc = "sig", !.sjob = th[t].njob, !.njob = NULL, !.sigret = "next"])
    /\ UNCHANGED <<reg_vars, job_count, hw_vars>>
    /\ Mem(Heap, ctx)

----------------------------------------------------------------------------
(* rve_internal_ctx_signal *)

\* rve_internal_ctx_signal begins: ctx = job->ctx (nothing is done for none),
\* ctx->regcmd_data = job->regcmd_data, then ++finished_job_count under
\* ctx->lock and the test against cmd_num.
rve_internal_ctx_signal(t) ==
    /\ th[t].pc = "sig"
    /\ UNCHANGED <<reg_vars, running_job, job_count, hw_vars>>
    /\ LET j == th[t].sjob
           c == job[j].ctx
       IN IF c = NULL
          THEN /\ Go(t, [th[t] EXCEPT !.pc = th[t].sigret, !.sjob = NULL, !.sigret = ""])
               /\ Mem(Heap, ctx)
          ELSE LET fin == ctx[c].finished_job_count + 1 IN
               /\ fin <= MaxCount
               /\ Go(t, IF fin >= ctx[c].cmd_num
                        THEN [th[t] EXCEPT !.pc = "sig_done", !.sctx = c]
                        ELSE [th[t] EXCEPT !.pc = th[t].sigret, !.sjob = NULL, !.sigret = ""])
               /\ Mem([Heap EXCEPT ![j].fins = Once(@)],
                      [ctx EXCEPT ![c].regcmd_data = job[j].regcmd_data,
                                  ![c].finished_job_count = fin])

\* ... the completion signal: job->flags |= RVE_JOB_DONE and wake_up (the
\* out fence, were there one, is signalled here too).
signal_done(t) ==
    /\ th[t].pc = "sig_done"
    /\ Go(t, [th[t] EXCEPT !.pc = "sig_clear"])
    /\ UNCHANGED <<reg_vars, running_job, job_count, hw_vars>>
    /\ Mem([Heap EXCEPT ![th[t].sjob].done = TRUE],
           [ctx EXCEPT ![th[t].sctx].signals = Once(@)])

\* ... ctx->is_running = false under ctx->lock.
signal_clear_running(t) ==
    /\ th[t].pc = "sig_clear"
    /\ Go(t, [th[t] EXCEPT !.pc = th[t].sigret, !.sjob = NULL, !.sctx = NULL, !.sigret = ""])
    /\ UNCHANGED <<reg_vars, running_job, job_count, hw_vars>>
    /\ Mem(Heap, [ctx EXCEPT ![th[t].sctx].is_running = FALSE])

----------------------------------------------------------------------------
(* RVE_IOC_END_CONFIG: rve_job_commit_by_user_ctx, rve_job_commit, rve_job_wait *)

\* rve_job_commit_by_user_ctx, up to the lookup.
rve_job_commit_by_user_ctx(t) ==
    /\ th[t].pc = "idle"
    /\ calls < MaxCalls
    /\ \E id \in Handles :
         LET c == rve_internal_ctx_lookup(id) IN
         Go(t, IF c = NULL THEN [Return(t, "EINVAL") EXCEPT !.op = "commit"]
               ELSE Enter(t, "commit", "cmt_check", c))
    /\ UNCHANGED <<reg_vars, running_job, job_count, hw_vars>>
    /\ Mem(Heap, ctx)

\* ... under ctx->lock: refuse a running context, else reset the counters
\* and set is_running.
commit_mark_running(t) ==
    /\ th[t].pc = "cmt_check"
    /\ UNCHANGED <<reg_vars, running_job, job_count, hw_vars>>
    /\ LET c == th[t].ctx IN
       IF ctx[c].is_running
       THEN /\ Go(t, Return(t, "EFAULT"))
            /\ Mem(Heap, ctx)
       ELSE /\ Go(t, [th[t] EXCEPT !.pc = "cmt_loop", !.cursor = 0])
            /\ Mem(Heap, [ctx EXCEPT ![c].finished_job_count = 0, ![c].is_running = TRUE,
                                     ![c].signals = 0])

\* The job rve_job_alloc builds at address a for context c: a zeroed page,
\* INIT_LIST_HEAD, the context's payload and its clamped priority
\* (rve_job_commit has just forced ctx->sync_mode to RVE_SYNC, so its
\* RVE_ASYNC branch sets no flag).
rve_job_alloc(a, c) ==
    [ZeroJob(a) EXCEPT !.live = TRUE, !.ctx = c,
                       !.priority = job_priority(ctx[c].priority),
                       !.enq_priority = job_priority(ctx[c].priority),
                       !.regcmd_data = ctx[c].regcmd_data]

\* ... the loop over cmd_num: rve_job_commit allocates the job of the next
\* batch; after the last batch the commit returns 0.
commit_loop(t) ==
    /\ th[t].pc = "cmt_loop"
    /\ UNCHANGED <<reg_vars, running_job, job_count, hw_vars>>
    /\ LET c == th[t].ctx IN
       IF th[t].cursor < ctx[c].cmd_num
       THEN \E a \in JobAddrs(MaxJobs) :
              /\ Go(t, [th[t] EXCEPT !.pc = "schedule", !.job = a])
              /\ Mem([Heap EXCEPT ![a] = rve_job_alloc(a, c)],
                     [ctx EXCEPT ![c].sync_mode = "RVE_SYNC"])
       ELSE /\ Go(t, Return(t, "OK"))
            /\ Mem(Heap, ctx)

\* ... rve_job_alloc returns NULL: rve_job_commit fails with -ENOMEM and the
\* commit returns -EFAULT.
commit_alloc_fail(t) ==
    /\ th[t].pc = "cmt_loop"
    /\ th[t].cursor < ctx[th[t].ctx].cmd_num
    /\ Go(t, Return(t, "EFAULT"))
    /\ UNCHANGED <<reg_vars, running_job, job_count, hw_vars>>
    /\ Mem(Heap, [ctx EXCEPT ![th[t].ctx].sync_mode = "RVE_SYNC"])

\* rve_job_commit after rve_job_schedule: ret = job->ret, abort when negative.
commit_read_ret(t) ==
    /\ th[t].pc = "cmt_ret"
    /\ Go(t, IF job[th[t].job].ret < 0
             THEN [th[t] EXCEPT !.pc = "abort", !.ret = "EFAULT"]
             ELSE [th[t] EXCEPT !.pc = "wait"])
    /\ UNCHANGED <<reg_vars, running_job, job_count, hw_vars>>
    /\ Mem(Heap, ctx)

\* rve_job_cleanup / free_page: the job's memory goes back to the allocator.
rve_job_cleanup(M, j) == [M EXCEPT ![j].live = FALSE]

\* rve_job_wait sees RVE_JOB_DONE: rve_job_cleanup frees the job,
\* running_job_count++, and the loop goes on or, after the last batch, the
\* commit returns 0.
wait_done(t) ==
    /\ th[t].pc = "wait"
    /\ job[th[t].job].done
    /\ Go(t, IF th[t].cursor + 1 < ctx[th[t].ctx].cmd_num
             THEN [th[t] EXCEPT !.pc = "cmt_loop", !.job = NULL, !.cursor = th[t].cursor + 1]
             ELSE Return(t, "OK"))
    /\ UNCHANGED <<reg_vars, running_job, job_count, hw_vars>>
    /\ Mem(rve_job_cleanup(Heap, th[t].job), ctx)

\* rve_job_wait times out (left_time = 0): soft_reset, -EBUSY.
wait_timeout(t) ==
    /\ th[t].pc = "wait"
    /\ ~job[th[t].job].done
    /\ hw_job' = NULL
    /\ Go(t, [th[t] EXCEPT !.pc = "abort", !.ret = "EBUSY"])
    /\ UNCHANGED <<reg_vars, running_job, job_count, irq_pending>>
    /\ Mem(Heap, ctx)

\* rve_job_wait is interrupted by a signal: -ERESTARTSYS, no reset.
wait_interrupted(t) ==
    /\ th[t].pc = "wait"
    /\ ~job[th[t].job].done
    /\ Go(t, [th[t] EXCEPT !.pc = "abort", !.ret = "ERESTARTSYS"])
    /\ UNCHANGED <<reg_vars, running_job, job_count, hw_vars>>
    /\ Mem(Heap, ctx)

\* rve_running_job_abort: clear the running slot if it holds this job, free
\* the job; rve_job_commit_by_user_ctx then returns -EFAULT.
rve_running_job_abort(t) ==
    /\ th[t].pc = "abort"
    /\ running_job' = IF th[t].job = running_job THEN NULL ELSE running_job
    /\ Go(t, Return(t, "EFAULT"))
    /\ UNCHANGED <<reg_vars, job_count, hw_vars>>
    /\ Mem(rve_job_cleanup(Heap, th[t].job), ctx)

----------------------------------------------------------------------------
(* RVE_IOC_CANCEL_CONFIG and rve_release: kref_put, rve_internal_ctx_kref_release *)

\* rve_job_cancel_by_user_ctx, up to the lookup.
rve_job_cancel_by_user_ctx(t) ==
    /\ th[t].pc = "idle"
    /\ calls < MaxCalls
    /\ \E id \in Handles :
         LET c == rve_internal_ctx_lookup(id) IN
         Go(t, IF c = NULL THEN [Return(t, "EINVAL") EXCEPT !.op = "cancel"]
               ELSE Enter(t, "cancel", "kref_put", c))
    /\ UNCHANGED <<reg_vars, running_job, job_count, hw_vars>>
    /\ Mem(Heap, ctx)

\* Where a kref_put that is over returns to: the cancel ioctl returns 0,
\* rve_release goes on with the next idr entry.
put_return(t) ==
    IF th[t].op = "release"
    THEN [th[t] EXCEPT !.pc = "exit_loop", !.ctx = NULL, !.sjob = NULL]
    ELSE Return(t, "OK")

\* kref_put(&ctx->refcount, rve_internal_ctx_kref_release): the release runs
\* when the count drops from 1 to 0; a count already at 0 saturates.
kref_put(t) ==
    /\ th[t].pc = "kref_put"
    /\ UNCHANGED <<reg_vars, running_job, job_count, hw_vars>>
    /\ LET c == th[t].ctx IN
       IF ctx[c].refcount = 1
       THEN /\ Go(t, [th[t] EXCEPT !.pc = "rel_check"])
            /\ Mem(Heap, [ctx EXCEPT ![c].refcount = 0])
       ELSE /\ Go(t, put_return(t))
            /\ Mem(Heap, ctx)

\* rve_internal_ctx_kref_release going to the schedulers whatever the
\* context's state is.
release_check_none(t) ==
    /\ th[t].pc = "rel_check"
    /\ Go(t, [th[t] EXCEPT !.pc = "rel_sched"])
    /\ UNCHANGED <<reg_vars, running_job, job_count, hw_vars>>
    /\ Mem(Heap, ctx)

\* rve_internal_ctx_kref_release, the test under ctx->lock.
release_check(t) ==
    /\ th[t].pc = "rel_check"
    /\ LET c == th[t].ctx IN
       Go(t, IF ~ctx[c].is_running \/ ctx[c].finished_job_count >= ctx[c].cmd_num
             THEN [th[t] EXCEPT !.pc = "rel_free"]
             ELSE [th[t] EXCEPT !.pc = "rel_sched"])
    /\ UNCHANGED <<reg_vars, running_job, job_count, hw_vars>>
    /\ Mem(Heap, ctx)

\* job->ctx->id as the release compares it (0 stands for what a job without
\* a context would give).
job_ctx_id(M, j) == IF M[j].ctx = NULL THEN 0 ELSE ctx[M[j].ctx].id

\* list_for_each_entry_safe in rve_internal_ctx_kref_release from position
\* pos on: list_del_init every entry whose context carries handle id.  n
\* counts the entries unlinked; a walk of more than k entries has not come
\* back to the head.
RECURSIVE release_walk(_, _, _, _, _)
release_walk(M, id, pos, n, k) ==
    IF pos = TodoHead THEN [M |-> M, n |-> n, back |-> TRUE]
    ELSE IF k = 0 THEN [M |-> M, n |-> n, back |-> FALSE]
    ELSE LET nxt == M[pos].next IN
         IF job_ctx_id(M, pos) = id
         THEN release_walk(list_del_init(M, pos), id, nxt, n + 1, k - 1)
         ELSE release_walk(M, id, nxt, n, k - 1)

\* ... under irq_lock: unlink the context's pending jobs (job_count-- each)
\* and empty the running slot if it holds one of them.
release_sched(t) ==
    /\ th[t].pc = "rel_sched"
    /\ UNCHANGED <<reg_vars, hw_vars>>
    /\ LET c == th[t].ctx
           w == release_walk(Heap, ctx[c].id, todo_list.next, 0, Cardinality(JobObjs) + 1)
           mine == running_job # NULL /\ job_ctx_id(Heap, running_job) = ctx[c].id
       IN IF w.back
          THEN /\ job_count' = job_count - w.n
               /\ running_job' = IF mine THEN NULL ELSE running_job
               /\ Go(t, IF mine THEN [th[t] EXCEPT !.pc = "rel_reset", !.sjob = running_job]
                        ELSE [th[t] EXCEPT !.pc = "rel_kfree"])
               /\ Mem(IF mine THEN [w.M EXCEPT ![running_job].pops = Once(@)] ELSE w.M, ctx)
          ELSE /\ Go(t, [th[t] EXCEPT !.pc = "lockup"])
               /\ UNCHANGED <<running_job, job_count>>
               /\ Mem(Heap, ctx)

\* ... need_reset: soft_reset, then rve_job_finish_and_next(job, 0).
release_reset(t) ==
    /\ th[t].pc = "rel_reset"
    /\ hw_job' = NULL
    /\ Go(t, [th[t] EXCEPT !.pc = "sig", !.sigret = "next"])
    /\ UNCHANGED <<reg_vars, running_job, job_count, irq_pending>>
    /\ Mem([Heap EXCEPT ![th[t].sjob].ret = 0], ctx)

\* ... kfree(ctx->regcmd_data) on the long path, then
\* rve_internal_ctx_free_remove_idr: ctx_count--, idr_remove(ctx->id), kfree.
rve_internal_ctx_free_remove_idr(t) ==
    /\ th[t].pc \in {"rel_kfree", "rel_free"}
    /\ LET c == th[t].ctx IN
       /\ idr' = [h \in Handles |-> IF h = ctx[c].id THEN NULL ELSE idr[h]]
       /\ ctx_count' = ctx_count - 1
       /\ Go(t, put_return(t))
       /\ UNCHANGED <<running_job, job_count, hw_vars>>
       /\ Mem(Heap, [ctx EXCEPT ![c].live = FALSE, ![c].reaped = (th[t].pc = "rel_kfree"),
                                ![c].payloads = IF th[t].pc = "rel_kfree" /\ @ > 0
                                                THEN @ - 1 ELSE @])

\* rve_release: the process exits and walks the idr for its contexts.
rve_release(t) ==
    /\ th[t].pc = "idle"
    /\ calls < MaxCalls
    /\ Go(t, [Enter(t, "release", "exit_loop", NULL) EXCEPT !.cursor = 0])
    /\ UNCHANGED <<reg_vars, running_job, job_count, hw_vars>>
    /\ Mem(Heap, ctx)

\* ... idr_for_each_entry: the next entry above the cursor; kref_put when
\* its debug_info.pid is the caller's.
release_next_entry(t) ==
    /\ th[t].pc = "exit_loop"
    /\ LET above == {h \in Handles : h > th[t].cursor /\ idr[h] # NULL} IN
       IF above = {}
       THEN Go(t, Return(t, "OK"))
       ELSE LET h == CHOOSE x \in above : \A y \in above : x <= y IN
            Go(t, IF ctx[idr[h]].pid = t
                  THEN [th[t] EXCEPT !.pc = "kref_put", !.ctx = idr[h], !.cursor = h]
                  ELSE [th[t] EXCEPT !.cursor = h])
    /\ UNCHANGED <<reg_vars, running_job, job_count, hw_vars>>
    /\ Mem(Heap, ctx)

----------------------------------------------------------------------------
(* The engine and its interrupt: rve_irq_handler, rve_irq_thread, rve_job_done *)

\* The engine finishes the job it executes and raises its interrupt;
\* rve_irq_handler clears it and wakes the thread.
hw_complete ==
    /\ ~Halted
    /\ hw_job # NULL
    /\ hw_job' = NULL
    /\ irq_pending' = TRUE
    /\ last_return' = NoReturn
    /\ UNCHANGED <<reg_vars, running_job, job_count, th, calls>>
    /\ Mem(Heap, ctx)

\* rve_irq_thread: the unlocked read of running_job; IRQ_HANDLED at once
\* when it is NULL.
rve_irq_thread ==
    /\ th[IrqThread].pc = "idle"
    /\ irq_pending
    /\ irq_pending' = FALSE
    /\ Go(IrqThread, IF running_job = NULL
                     THEN [Return(IrqThread, "IRQ_HANDLED") EXCEPT !.op = "irq"]
                     ELSE [th[IrqThread] EXCEPT !.pc = "job_done", !.op = "irq"])
    /\ UNCHANGED <<reg_vars, running_job, job_count, hw_job>>
    /\ Mem(Heap, ctx)

\* rve_job_done: take the running job and empty the slot under irq_lock
\* (job->hw_recoder_time is read through the pointer, NULL or not), then
\* rve_job_finish_and_next(job, 0).
rve_job_done ==
    /\ th[IrqThread].pc = "job_done"
    /\ UNCHANGED <<reg_vars, job_count, hw_vars>>
    /\ running_job' = NULL
    /\ IF running_job = NULL
       THEN /\ Go(IrqThread, [th[IrqThread] EXCEPT !.pc = "oops"])
            /\ Mem(Heap, ctx)
       ELSE /\ Go(IrqThread, [th[IrqThread] EXCEPT !.pc = "sig", !.sjob = running_job,
                                                   !.sigret = "next"])
            /\ Mem([Heap EXCEPT ![running_job].ret = 0, ![running_job].pops = Once(@)], ctx)

----------------------------------------------------------------------------
(* The system *)

\* RVE_IOC_START_CONFIG and RVE_IOC_CMD_CONFIG.
ConfigStep(t) ==
    \/ rve_internal_ctx_alloc_to_get_idr_id(t)
    \/ ctx_alloc_fail(t)
    \/ ctx_alloc_no_handle(t)
    \/ rve_job_config_by_user_ctx(t)
    \/ config_check_running(t)
    \/ config_write(t)
    \/ config_copy_fail(t)

\* RVE_IOC_END_CONFIG.
CommitStep(t) ==
    \/ rve_job_commit_by_user_ctx(t)
    \/ commit_mark_running(t)
    \/ commit_loop(t)
    \/ commit_alloc_fail(t)
    \/ commit_read_ret(t)
    \/ wait_done(t)
    \/ wait_timeout(t)
    \/ wait_interrupted(t)
    \/ rve_running_job_abort(t)

\* RVE_IOC_CANCEL_CONFIG and the close of the device file.
CancelStep(t) ==
    \/ rve_job_cancel_by_user_ctx(t)
    \/ rve_release(t)
    \/ release_next_entry(t)
    \/ kref_put(t)
    \/ release_check(t)
    \/ release_sched(t)
    \/ release_reset(t)
    \/ rve_internal_ctx_free_remove_idr(t)

\* The scheduler functions every path runs through.
SharedStep(t) ==
    \/ rve_job_schedule(t)
    \/ rve_job_next(t)
    \/ rve_job_run_ok(t)
    \/ rve_job_run_fail(t)
    \/ rve_job_next_fail(t)
    \/ rve_internal_ctx_signal(t)
    \/ signal_done(t)
    \/ signal_clear_running(t)

IrqStep ==
    \/ hw_complete
    \/ rve_irq_thread
    \/ rve_job_done

Next ==
    \/ \E t \in Clients : ConfigStep(t) \/ CommitStep(t) \/ CancelStep(t)
    \/ \E t \in AllThreads : SharedStep(t)
    \/ IrqStep

Spec == Init /\ [][Next]_vars

----------------------------------------------------------------------------
(* The scheduler with contexts already configured *)

\* The context RVE_IOC_START_CONFIG by thread t and RVE_IOC_CMD_CONFIG with
\* input u leave behind handle h.
ConfiguredCtx(h, t, u) ==
    [ZeroCtx EXCEPT !.live = TRUE, !.id = h, !.refcount = 1, !.pid = t,
                    !.sync_mode = u.sync_mode, !.cmd_num = 1,
                    !.regcmd_data = u.regcmd_data, !.priority = u.priority,
                    !.in_fence_fd = u.in_fence_fd, !.payloads = 1]

\* The state with the first n contexts configured: p1 owns context 1 at
\* the default priority, p2 context 2 at priority 5.
InitWith(n) ==
    /\ ctx = [c \in CtxObjs |->
                IF c = 1 /\ n >= 1
                THEN ConfiguredCtx(1, "p1", CHOOSE u \in UserCtxInputs : u.priority = 0)
                ELSE IF c = 2 /\ n >= 2
                THEN ConfiguredCtx(2, "p2", CHOOSE u \in UserCtxInputs : u.priority = 5)
                ELSE ZeroCtx]
    /\ idr = [h \in Handles |-> IF h <= n THEN h ELSE NULL]
    /\ ctx_count = n
    /\ job = [j \in JobObjs |-> ZeroJob(j)]
    /\ InitScheduler
    /\ th = [t \in AllThreads |-> ZeroTh]
    /\ calls = 0
    /\ last_return = NoReturn

\* Commits, their waits and aborts, the engine and the interrupt thread.
NextSched ==
    \/ \E t \in Clients : CommitStep(t)
    \/ \E t \in AllThreads : SharedStep(t)
    \/ IrqStep

SpecSched == InitWith(2) /\ [][NextSched]_vars

\* A cancel or a close of the device that begins while a job is in the
\* running slot.
CancelOfRunning(t) ==
    \/ running_job # NULL /\ rve_job_cancel_by_user_ctx(t)
    \/ running_job # NULL /\ rve_release(t)
    \/ release_next_entry(t)
    \/ kref_put(t)
    \/ release_check(t)
    \/ release_sched(t)
    \/ release_reset(t)
    \/ rve_internal_ctx_free_remove_idr(t)

\* p1 commits and its job meets no failure of its own (the engine starts
\* and the wait is left alone), p2 cancels or closes the device while a job
\* runs, the engine completes and the interrupt thread runs.
NextCancel ==
    \/ rve_job_commit_by_user_ctx("p1")
    \/ commit_mark_running("p1")
    \/ commit_loop("p1")
    \/ commit_read_ret("p1")
    \/ wait_done("p1")
    \/ CancelOfRunning("p2")
    \/ \E t \in AllThreads :
          \/ rve_job_schedule(t)
          \/ rve_job_next(t)
          \/ rve_job_run_ok(t)
          \/ rve_internal_ctx_signal(t)
          \/ signal_done(t)
          \/ signal_clear_running(t)
    \/ IrqStep

SpecCancel == InitWith(2) /\ [][NextCancel]_vars

\* p1 allocates and configures contexts, p2 commits them; context 1 is
\* configured at the start.
NextConfig ==
    \/ ConfigStep("p1")
    \/ CommitStep("p2")
    \/ \E t \in AllThreads : SharedStep(t)
    \/ IrqStep

SpecConfig == InitWith(1) /\ [][NextConfig]_vars

----------------------------------------------------------------------------
(* The pending queue on its own: the critical sections of rve_job_schedule, *)
(* rve_job_next and rve_job_done, each taken in one step by some caller.    *)

\* The priorities contexts are configured with in the queue specification.
QueuePriorities == {0, 3, 5, 7}

\* rve_job_alloc for a context of priority p, then the insertion of
\* rve_job_schedule under irq_lock.
queue_schedule ==
    \E p \in QueuePriorities : \E a \in JobAddrs(MaxQJobs) :
      LET j == [ZeroJob(a) EXCEPT !.live = TRUE, !.priority = job_priority(p),
                                  !.enq_priority = job_priority(p)]
          s == schedule_insert([Heap EXCEPT ![a] = j], a)
      IN /\ job_count' = job_count + 1
         /\ last_return' = [NoReturn EXCEPT !.op = "schedule", !.job = a]
         /\ UNCHANGED <<reg_vars, running_job, hw_vars, th, calls>>
         /\ Mem(s.M, ctx)

\* rve_job_next under irq_lock, then rve_job_run starting the engine.
queue_next ==
    /\ ~next_returns_at_once
    /\ LET j == list_first_entry(Heap, TodoHead) IN
       /\ job_count' = job_count - 1
       /\ running_job' = j
       /\ hw_job' = j
       /\ last_return' = [NoReturn EXCEPT !.op = "next", !.job = j]
       /\ UNCHANGED <<reg_vars, irq_pending, th, calls>>
       /\ Mem(list_del_init(Heap, j), ctx)

\* rve_job_next when a job runs or nothing is queued: it returns at once.
queue_next_noop ==
    /\ next_returns_at_once
    /\ last_return' = [NoReturn EXCEPT !.op = "next"]
    /\ UNCHANGED <<reg_vars, running_job, job_count, hw_vars, th, calls>>
    /\ Mem(Heap, ctx)

\* The engine completes: rve_job_done empties the slot under irq_lock and
\* rve_internal_ctx_signal sets RVE_JOB_DONE; the job stays allocated until
\* its waiter has run.
queue_done ==
    /\ running_job # NULL
    /\ running_job' = NULL
    /\ hw_job' = NULL
    /\ last_return' = [NoReturn EXCEPT !.op = "done"]
    /\ UNCHANGED <<reg_vars, job_count, irq_pending, th, calls>>
    /\ Mem([Heap EXCEPT ![running_job].done = TRUE, ![running_job].pops = Once(@)], ctx)

NextQueue ==
    \/ queue_schedule
    \/ queue_next
    \/ queue_next_noop
    \/ queue_done

SpecQueue == Init /\ [][NextQueue]_vars

\* The engine completes every job it runs and rve_job_next is called after
\* every completion.
FairSpecQueue == SpecQueue /\ WF_vars(queue_next) /\ WF_vars(queue_done)


\* Both clients allocate, configure, commit and cancel the two handles;
\* a commit here gets no page from rve_job_alloc, so no job exists and the
\* schedulers stay empty.
NextHandle ==
    \E t \in Clients :
       \/ ConfigStep(t)
       \/ rve_job_commit_by_user_ctx(t)
       \/ commit_mark_running(t)
       \/ commit_alloc_fail(t)
       \/ rve_job_cancel_by_user_ctx(t)
       \/ kref_put(t)
       \/ release_check(t)
       \/ release_sched(t)
       \/ rve_internal_ctx_free_remove_idr(t)

SpecHandle == InitWith(2) /\ [][NextHandle]_vars

\* p1 commits, p2 exits (the device file is closed under its process
\* identity), the engine completes and the interrupt thread runs.
NextExit ==
    \/ rve_job_commit_by_user_ctx("p1")
    \/ commit_mark_running("p1")
    \/ commit_loop("p1")
    \/ commit_read_ret("p1")
    \/ wait_done("p1")
    \/ rve_release("p2")
    \/ release_next_entry("p2")
    \/ kref_put("p2")
    \/ release_check("p2")
    \/ release_sched("p2")
    \/ release_reset("p2")
    \/ rve_internal_ctx_free_remove_idr("p2")
    \/ \E t \in AllThreads :
          \/ rve_job_schedule(t)
          \/ rve_job_next(t)
          \/ rve_job_run_ok(t)
          \/ rve_internal_ctx_signal(t)
          \/ signal_done(t)
          \/ signal_clear_running(t)
    \/ IrqStep

SpecExit == InitWith(2) /\ [][NextExit]_vars

\* p1 commits and p2 cancels a handle at any moment of the commit; the
\* engine completes and the interrupt thread runs.
NextRace ==
    \/ rve_job_commit_by_user_ctx("p1")
    \/ commit_mark_running("p1")
    \/ commit_loop("p1")
    \/ commit_read_ret("p1")
    \/ wait_done("p1")
    \/ rve_job_cancel_by_user_ctx("p2")
    \/ kref_put("p2")
    \/ release_check("p2")
    \/ release_sched("p2")
    \/ release_reset("p2")
    \/ rve_internal_ctx_free_remove_idr("p2")
    \/ \E t \in AllThreads :
          \/ rve_job_schedule(t)
          \/ rve_job_next(t)
          \/ rve_job_run_ok(t)
          \/ rve_internal_ctx_signal(t)
          \/ signal_done(t)
          \/ signal_clear_running(t)
    \/ IrqStep

SpecRace == InitWith(2) /\ [][NextRace]_vars

----------------------------------------------------------------------------
(* The locks: scheduler->irq_lock, ctx->lock and ctx_manager->lock.  Each  *)
(* call path is the sequence of lock and unlock calls it makes, in program *)
(* order; a thread waits at a lock another thread holds.                   *)

irq_lock == <<"irq_lock", 0>>
manager_lock == <<"ctx_manager_lock", 0>>
ctx_lock(c) == <<"ctx_lock", c>>

\* A spin_lock_irqsave or mutex_lock of lock l directly followed, after a
\* critical section that calls nothing that locks, by its unlock.
Section(l) == <<[a |-> "acq", l |-> l], [a |-> "rel", l |-> l]>>

\* rve_internal_ctx_lookup: idr_find under ctx_manager->lock.
locks_lookup == Section(manager_lock)

\* rve_internal_ctx_signal of the last batch of context c: the count under
\* ctx->lock, wake_up with no lock held, is_running under ctx->lock.
locks_signal(c) == Section(ctx_lock(c)) \o Section(ctx_lock(c))

\* rve_job_next that pops a job and starts it, or returns at once.
locks_next == Section(irq_lock)

\* rve_job_next whose rve_job_run fails for a job of context c: the pop, the
\* slot emptied, the signal, and next_job again.
locks_next_fail(c) ==
    Section(irq_lock) \o Section(irq_lock) \o locks_signal(c) \o locks_next

\* rve_job_schedule: rve_job_timeout_clean, the insertion, rve_job_next.
locks_schedule == Section(irq_lock) \o Section(irq_lock) \o locks_next

\* rve_job_schedule whose rve_job_timeout_clean finds a timed-out job of
\* context c: irq_lock is dropped before soft_reset and the signal.
locks_schedule_timeout(c) ==
    Section(irq_lock) \o locks_signal(c) \o Section(irq_lock) \o locks_next

\* rve_running_job_abort.
locks_abort == Section(irq_lock)

\* rve_internal_ctx_alloc_to_get_idr_id.
locks_alloc == Section(manager_lock)

\* rve_job_config_by_user_ctx on context c.
locks_config(c) == locks_lookup \o Section(ctx_lock(c))

\* rve_job_commit_by_user_ctx on context c with one batch: the wait ends
\* with the job done.
locks_commit(c) == locks_lookup \o Section(ctx_lock(c)) \o locks_schedule

\* ... rve_job_run fails in the committer's rve_job_next, then the abort.
locks_commit_run_fail(c) ==
    locks_lookup \o Section(ctx_lock(c)) \o Section(irq_lock) \o Section(irq_lock)
       \o locks_next_fail(c) \o locks_abort

\* ... the wait times out or is interrupted, then the abort.
locks_commit_abort(c) == locks_commit(c) \o locks_abort

\* rve_internal_ctx_kref_release of a context that is not running.
locks_kref_release_idle(c) == Section(ctx_lock(c)) \o Section(manager_lock)

\* The release with the scheduler's lock taken inside ctx->lock.
locks_kref_release_nested(c) ==
    <<[a |-> "acq", l |-> ctx_lock(c)], [a |-> "acq", l |-> irq_lock],
      [a |-> "rel", l |-> irq_lock], [a |-> "rel", l |-> ctx_lock(c)]>>
       \o locks_signal(c) \o locks_next \o Section(manager_lock)

\* rve_internal_ctx_kref_release of a running context whose job is in the
\* slot: the test under ctx->lock, the walk under irq_lock, then
\* rve_job_finish_and_next and rve_internal_ctx_free_remove_idr.
locks_kref_release(c) ==
    Section(ctx_lock(c)) \o Section(irq_lock) \o locks_signal(c) \o locks_next
       \o Section(manager_lock)

\* rve_job_cancel_by_user_ctx on context c.
locks_cancel(c) == locks_lookup \o locks_kref_release(c)

\* rve_release with one context c of the caller in the idr: the mutex is
\* dropped around kref_put.
locks_release(c) ==
    <<[a |-> "acq", l |-> manager_lock], [a |-> "rel", l |-> manager_lock]>>
       \o locks_kref_release(c) \o Section(manager_lock)

\* rve_irq_thread and rve_job_done for a job of context c: the slot under
\* irq_lock, debug_info under ctx->lock, then rve_job_finish_and_next.
locks_job_done(c) ==
    Section(irq_lock) \o Section(ctx_lock(c)) \o locks_signal(c) \o locks_next

\* hrtimer_handler.
locks_hrtimer == Section(irq_lock)

\* The number of system calls followed through their lock calls.
MaxLockCalls == 2

ClientPaths ==
    {"alloc", "config", "commit", "commit_run_fail", "commit_abort",
     "cancel", "cancel_idle", "release", "schedule_timeout"}

IrqPaths == {"job_done", "hrtimer"}

\* The lock calls of call path p on context c.
LockProgram(p, c) ==
    CASE p = "alloc" -> locks_alloc
      [] p = "config" -> locks_config(c)
      [] p = "commit" -> locks_commit(c)
      [] p = "commit_run_fail" -> locks_commit_run_fail(c)
      [] p = "commit_abort" -> locks_commit_abort(c)
      [] p = "cancel" -> locks_cancel(c)
      [] p = "cancel_idle" -> locks_lookup \o locks_kref_release_idle(c)
      [] p = "release" -> locks_release(c)
      [] p = "schedule_timeout" ->
            locks_lookup \o Section(ctx_lock(c)) \o locks_schedule_timeout(c)
      [] p = "job_done" -> locks_job_done(c)
      [] p = "hrtimer" -> locks_hrtimer
      [] OTHER -> <<>>

\* The lock calls thread t is going through, and the next one.
Program(t) == LockProgram(th[t].op, th[t].ctx)
NextLockCall(t) == Program(t)[th[t].cursor + 1]

\* The locks thread t holds: acquired and not released in the calls it has
\* made so far.
Held(t) ==
    IF th[t].pc # "locks" THEN {}
    ELSE LET p == Program(t)
             n == th[t].cursor
         IN {p[i].l : i \in {k \in 1..n :
                 /\ p[k].a = "acq"
                 /\ \A m \in (k + 1)..n : p[m] # [a |-> "rel", l |-> p[k].l]}}

\* Thread t enters the driver on one of the call paths.
lock_enter(t) ==
    /\ th[t].pc = "idle"
    /\ t \in Clients => calls < MaxLockCalls
    /\ \E p \in (IF t = IrqThread THEN IrqPaths ELSE ClientPaths) : \E c \in CtxObjs :
          Go(t, [ZeroTh EXCEPT !.pc = "locks", !.op = p, !.ctx = c])
    /\ UNCHANGED <<reg_vars, running_job, job_count, hw_vars>>
    /\ Mem(Heap, ctx)

\* What thread t is left with after its next lock call.
AfterLockCall(t) ==
    IF th[t].cursor + 1 = Len(Program(t))
    THEN Return(t, "OK")
    ELSE [th[t] EXCEPT !.cursor = @ + 1]

\* spin_lock_irqsave or mutex_lock: taken when no other thread holds it.
lock_acquire(t) ==
    /\ th[t].pc = "locks"
    /\ NextLockCall(t).a = "acq"
    /\ \A u \in AllThreads \ {t} : NextLockCall(t).l \notin Held(u)
    /\ Go(t, AfterLockCall(t))
    /\ UNCHANGED <<reg_vars, running_job, job_count, hw_vars>>
    /\ Mem(Heap, ctx)

\* spin_unlock_irqrestore or mutex_unlock.
lock_release(t) ==
    /\ th[t].pc = "locks"
    /\ NextLockCall(t).a = "rel"
    /\ Go(t, AfterLockCall(t))
    /\ UNCHANGED <<reg_vars, running_job, job_count, hw_vars>>
    /\ Mem(Heap, ctx)

NextLocks ==
    \E t \in AllThreads :
       \/ lock_enter(t)
       \/ lock_acquire(t)
       \/ lock_release(t)

SpecLocks == InitWith(2) /\ [][NextLocks]_vars
----------------------------------------------------------------------------
(* Properties *)

\* Job j is linked in the pending queue.
IsPending(j) == j \in Range(Pending)

\* The step installs job j in the running slot.
Installs(j) == running_job' = j /\ running_job # j

\* The step is rve_job_next's pop of job j from the head of the queue.
Dispatches(j) == Installs(j) /\ IsPending(j)

\* In the queue specification jobs are allocated at ascending addresses and
\* stay allocated, so the address order is the order of the commits.
CommittedBefore(a, b) == a < b

\* Job a stands ahead of job b in queue q.
Ahead(q, a, b) == IndexOf(q, a) # 0 /\ IndexOf(q, b) # 0 /\ IndexOf(q, a) < IndexOf(q, b)

\* The step is taken by thread t.
StepOf(t) == th'[t] # th[t]

\* C1: a job is installed as running only when the slot was empty, and no
\* job is at the same time linked in the pending queue and installed in the
\* running slot.  (The first half on its own is C1_InstalledWhenEmpty.)
C1_SlotExclusive ==
    running_job # NULL => ~IsPending(running_job)

\* C1, first half: the running slot changes to a job only from empty.
C1_InstalledWhenEmpty ==
    [][\A j \in JobObjs : Installs(j) => running_job = NULL]_vars

\* C2: when a pending job is dispatched, no job still pending was allocated
\* with a strictly higher priority.
C2_HigherPriorityFirst ==
    [][\A b \in JobObjs : Dispatches(b) =>
          \A a \in Range(Pending) \ {b} :
             ~(job[a].enq_priority > job[b].enq_priority)]_vars

\* C3: when a pending job is dispatched, no job of the same priority that
\* was committed before it is still pending.
C3_FifoWithinPriority ==
    [][\A b \in JobObjs : Dispatches(b) =>
          \A a \in Range(Pending) \ {b} :
             job[a].enq_priority = job[b].enq_priority => ~CommittedBefore(a, b)]_vars

\* The step is the completion signal of context c (RVE_JOB_DONE and wake_up
\* in rve_internal_ctx_signal).
Signals(c) == ctx'[c].signals # ctx[c].signals /\ ctx'[c].signals # 0

\* The step is a finalization counted on context c.
Finalizes(c) == ctx'[c].finished_job_count # ctx[c].finished_job_count
                /\ ctx'[c].finished_job_count # 0

\* C4: every finalization adds exactly 1 to finished_job_count, and the
\* completion signal fires once per commit, at the finalization that makes
\* finished_job_count equal to cmd_num.
C4_SignalExactlyOnce ==
    [][\A c \in CtxObjs :
         /\ Finalizes(c) => ctx'[c].finished_job_count = ctx[c].finished_job_count + 1
         /\ Signals(c) => /\ ctx[c].signals = 0
                          /\ ctx[c].finished_job_count = ctx[c].cmd_num]_vars

\* Neither the release path nor the interrupt thread is on its way.
FinalizersIdle == th["p2"].pc = "idle" /\ th[IrqThread].pc = "idle" /\ ~irq_pending

\* C5: when a cancel or a close races with the completion interrupt of the
\* running job, every finalization of a job is the first one of that job
\* and is counted on the job's context, which is still allocated and whose
\* finished_job_count it raises by one.  (That no job is taken, counted or
\* signalled twice is C5_AtMostOnce on its own.)
C5_OneFinalization ==
    [][\A t \in AllThreads :
         th[t].pc = "sig" /\ StepOf(t) =>
            LET j == th[t].sjob
                c == job[j].ctx
            IN /\ job[j].fins = 0
               /\ c # NULL /\ ctx[c].live
               /\ ctx'[c].finished_job_count = ctx[c].finished_job_count + 1]_vars

\* C5, second half: a job is taken out of the running slot once, counted
\* once and signalled once, and when both paths are through it has been
\* counted and signalled.
C5_AtMostOnce ==
    \A j \in JobObjs :
        /\ job[j].pops <= 1
        /\ job[j].fins <= 1
        /\ job[j].ctx # NULL => ctx[job[j].ctx].signals <= 1
        /\ job[j].pops = 1 /\ FinalizersIdle => job[j].fins = 1 /\ job[j].done

\* The lowest priority among the entries that stand ahead of job d in queue
\* q, with the jobs as in J (above every priority when d is at the head).
MinAhead(q, J, d) ==
    LET ahead == {J[q[i]].priority : i \in 1..(IndexOf(q, d) - 1)}
    IN IF ahead = {} THEN MaxBump + 1
       ELSE CHOOSE m \in ahead : \A x \in ahead : m <= x

\* The step links job a into the queue ahead of job d, which was pending.
Overtakes(a, d) ==
    /\ IsPending(d) /\ ~IsPending(a)
    /\ Ahead(Pending', a, d)

ContextsUnchanged == \A c \in CtxObjs : ctx[c].live => ctx'[c] = ctx[c]

\* C7: rve_job_next called while a job runs or while nothing is pending
\* leaves the pending queue, its entries, job_count, the running slot and
\* the engine as they are, and would return at once again.
C7_NextIsNoOp ==
    [][\A t \in AllThreads :
         /\ th[t].pc = "next" /\ StepOf(t)
         /\ running_job # NULL \/ list_empty(Heap, TodoHead)
         =>
            /\ Pending' = Pending
            /\ \A j \in Range(Pending) : job'[j] = job[j]
            /\ UNCHANGED <<todo_list, job_count, running_job, hw_job, irq_pending>>
            /\ running_job' # NULL \/ list_empty(Heap', TodoHead)]_vars

\* C7 happens: a commit is back from rve_job_next with its own job still
\* pending behind the job of another commit that runs.
C7_Witness ==
    \E t \in Clients :
        /\ th[t].pc = "cmt_ret"
        /\ IsPending(th[t].job)
        /\ running_job # NULL /\ running_job # th[t].job

\* C8: a Configure returns -EINVAL at once exactly when it names a handle
\* the registry does not hold, and -EFAULT when the context it found has
\* is_running set; either way no field of any context, no queue entry and
\* no running slot changes.
C8_ConfigureRefused ==
    [][\A t \in Clients :
         /\ th[t].pc = "idle" /\ th'[t].op = "config" =>
               \E h \in Handles : idr[h] # NULL /\ idr[h] = th'[t].ctx
         /\ th[t].pc = "idle" /\ last_return'.t = t /\ last_return'.op = "config" =>
               /\ last_return'.ret = "EINVAL"
               /\ \E h \in Handles : idr[h] = NULL
               /\ ContextsUnchanged
               /\ UNCHANGED <<idr, todo_list, job_count, running_job, hw_job>>
         /\ th[t].pc = "cfg_check" /\ StepOf(t) /\ ctx[th[t].ctx].is_running =>
               /\ last_return'.t = t /\ last_return'.ret = "EFAULT"
               /\ ContextsUnchanged
               /\ UNCHANGED <<idr, todo_list, job_count, running_job, hw_job>>]_vars

\* C8 happens: a Configure has just been refused on a context that a commit
\* has marked running.
C8_Witness ==
    /\ last_return.op = "config" /\ last_return.from = "cfg_check"
    /\ last_return.ret = "EFAULT"
    /\ ctx[last_return.ctx].is_running

\* C9: a commit returns only after rve_internal_ctx_signal has counted its
\* job, or after its wait timed out or was interrupted; and it returns
\* success only when the job was counted.
C9_CommitWaitsForFinish ==
    last_return.op = "commit" /\ last_return.job # NULL =>
        /\ \/ job[last_return.job].fins >= 1
           \/ last_return.cause \in {"EBUSY", "ERESTARTSYS"}
        /\ last_return.ret = "OK" => job[last_return.job].fins >= 1

\* C10: when the wait of a commit has timed out, the commit returns an
\* error, its job has been counted by rve_internal_ctx_signal (so
\* the context, whose last batch it was, is not running any more), the job
\* is not in the running slot, and a pending job has been dispatched.
C10_TimeoutFinalizes ==
    last_return.op = "commit" /\ last_return.cause = "EBUSY" =>
        /\ last_return.ret # "OK"
        /\ job[last_return.job].fins >= 1
        /\ ~ctx[last_return.ctx].is_running
        /\ running_job # last_return.job
        /\ Len(Pending) > 0 => running_job # NULL

\* The scheduler and the engine are as they were after the step, and so is
\* every allocated job.
SchedulerUntouched ==
    /\ UNCHANGED <<todo_list, job_count, running_job, hw_job, irq_pending>>
    /\ \A j \in JobObjs : job[j].live => job'[j] = job[j]

\* C11: the job committed for a context configured RVE_ASYNC is an
\* asynchronous job, which the timeout test of rve_job_timeout_clean
\* covers; and when that test fires the engine is reset, the running slot
\* is emptied and the job goes to rve_internal_ctx_signal.
C11_AsyncTimeout ==
    [][/\ \A t \in Clients :
            /\ th[t].pc = "cmt_loop" /\ th'[t].pc = "schedule"
            /\ ctx[th[t].ctx].sync_mode = "RVE_ASYNC"
            => job'[th'[t].job].async
       /\ \A t \in Clients :
            th[t].pc = "schedule" /\ StepOf(t) /\ timeout_clean_fires =>
               /\ running_job' = NULL /\ hw_job' = NULL
               /\ th'[t].pc = "sig" /\ th'[t].sjob = running_job]_vars

\* C12: a cancel that finds its context not running, or with every batch
\* finished, goes straight to the removal of the context and returns 0:
\* none of its steps changes the pending queue, job_count, the running slot,
\* the engine or a job, and it takes only this context's handle out of the
\* registry, leaving every other context as it was.
C12_CancelOfIdleContext ==
    [][\A t \in Clients :
         LET c == th[t].ctx IN
         /\ /\ th[t].op = "cancel" /\ th[t].pc = "rel_check" /\ StepOf(t)
            /\ ~ctx[c].is_running \/ ctx[c].finished_job_count >= ctx[c].cmd_num
            => th'[t].pc = "rel_free" /\ SchedulerUntouched /\ UNCHANGED reg_vars
         /\ th[t].op = "cancel" /\ th[t].pc = "rel_free" /\ StepOf(t) =>
               /\ last_return'.t = t /\ last_return'.ret = "OK"
               /\ SchedulerUntouched
               /\ \A h \in Handles : idr'[h] = IF idr[h] = c THEN NULL ELSE idr[h]
               /\ idr'[ctx[c].id] = NULL
               /\ \A d \in CtxObjs \ {c} : ctx[d].live => ctx'[d] = ctx[d]]_vars

\* C12 happens: a cancel of a context that was not running has returned
\* while the job of another context is in the running slot.
C12_Witness ==
    /\ last_return.op = "cancel" /\ last_return.from = "rel_free"
    /\ last_return.ret = "OK"
    /\ running_job # NULL /\ job[running_job].ctx # last_return.ctx

\* The step is the return of system call op to client t.
Returns(t, op) == last_return'.t = t /\ last_return'.op = op

\* C19: an allocation that succeeds puts a new context, with reference
\* count 1 and not running, under a positive handle that was free, and
\* changes no other entry of the registry; one that fails leaves the
\* registry and its context count as they were.
C19_AllocateHandle ==
    [][\A t \in Clients :
         th[t].pc = "idle" /\ Returns(t, "start") =>
            IF last_return'.ret = "OK"
            THEN LET c == last_return'.ctx
                     h == ctx'[c].id
                 IN /\ h \in Handles /\ h >= 1
                    /\ idr[h] = NULL /\ idr'[h] = c
                    /\ \A k \in Handles \ {h} : idr'[k] = idr[k] /\ idr[k] # c
                    /\ ctx'[c].live /\ ~ctx[c].live
                    /\ ctx'[c].refcount = 1 /\ ~ctx'[c].is_running
                    /\ ctx_count' = ctx_count + 1
            ELSE UNCHANGED <<idr, ctx_count>>]_vars

\* C13: when a cancel returns 0 its handle is out of the registry; a
\* Configure, Commit or Cancel of a handle the registry does not hold
\* returns -EINVAL and changes nothing; and a handle that is out of the
\* registry comes back only by an allocation.
C13_CancelledHandleInvalid ==
    [][\A t \in Clients :
         /\ Returns(t, "cancel") /\ last_return'.ret = "OK" =>
               idr'[ctx[th[t].ctx].id] = NULL
         /\ \A op \in {"config", "commit", "cancel"} :
               th[t].pc = "idle" /\ th'[t].op = op =>
                  \E h \in Handles : idr[h] # NULL /\ idr[h] = th'[t].ctx
         /\ \A op \in {"config", "commit", "cancel"} :
               th[t].pc = "idle" /\ Returns(t, op) =>
                  /\ last_return'.ret = "EINVAL"
                  /\ ContextsUnchanged /\ SchedulerUntouched /\ UNCHANGED reg_vars
         /\ \A h \in Handles :
               idr[h] = NULL /\ idr'[h] # NULL /\ StepOf(t) =>
                  Returns(t, "start") /\ last_return'.ret = "OK"]_vars

\* Handle h is held by a context of process t.
OwnedBy(h, t) == idr[h] # NULL /\ ctx[idr[h]].pid = t

\* Job j belongs to a context of process t.
JobOf(j, t) == job[j].ctx # NULL /\ ctx[job[j].ctx].pid = t

\* C14: no step of an exiting process takes the handle of another
\* process's context out of the registry or another process's job out of
\* the pending queue; when rve_release returns no handle is held by a
\* context of the process; and while the process is gone, with none of its
\* contexts registered, none of their jobs is pending or running.
C14_ReleaseOnExit ==
    /\ [][\A t \in Clients :
            /\ th[t].op = "release" /\ StepOf(t) =>
                  /\ \A h \in Handles : ~OwnedBy(h, t) => idr'[h] = idr[h]
                  /\ th[t].pc = "rel_sched" =>
                        \A j \in Range(Pending) : ~JobOf(j, t) => j \in Range(Pending')
            /\ Returns(t, "release") =>
                  \A h \in Handles : ~OwnedBy(h, t)']_vars
    /\ [](\A t \in Clients :
            th[t].pc = "idle" /\ (\A h \in Handles : ~OwnedBy(h, t)) =>
               \A j \in Range(Pending) \cup ({running_job} \ {NULL}) : ~JobOf(j, t))

\* Some path that empties the running slot of job j is under way without
\* the engine having to complete: the interrupt of a completion is pending
\* or the interrupt thread is at work, or a thread is inside the commit,
\* the dispatch or the finalization of j.
HasClearer(j) ==
    \/ irq_pending
    \/ th[IrqThread].pc # "idle"
    \/ \E t \in Clients :
          th[t].pc # "idle" /\ j \in {th[t].job, th[t].njob, th[t].sjob}

\* C15: a job in the running slot always has a path under way that empties
\* the slot of it, whether or not the engine ever completes it.
C15_SlotNeverStuck ==
    running_job # NULL /\ ~Halted => HasClearer(running_job)

\* Where a thread is while inside rve_internal_ctx_signal.
SignalPcs == {"sig", "sig_done", "sig_clear"}

\* C16: when rve_job_run has failed for the job rve_job_next popped, the
\* running slot is emptied and the job goes to rve_internal_ctx_signal,
\* which adds one to the finished count of its context; rve_job_next then
\* starts over, and it returns only when a job is in the running slot
\* (started by this call or running already) or the queue is empty.
C16_FailedSetupSkipsJob ==
    [][\A t \in AllThreads :
         /\ th[t].pc = "next_fail" /\ StepOf(t) =>
               /\ running_job' = NULL
               /\ th'[t].pc = "sig" /\ th'[t].sjob = th[t].njob /\ th'[t].sigret = "next"
         /\ /\ th[t].pc = "sig" /\ th[t].sigret = "next" /\ StepOf(t)
            /\ job[th[t].sjob].ctx # NULL
            => ctx'[job[th[t].sjob].ctx].finished_job_count
                  = ctx[job[th[t].sjob].ctx].finished_job_count + 1
         /\ /\ th[t].pc \in SignalPcs /\ th[t].sigret = "next" /\ StepOf(t)
            /\ th'[t].pc \notin SignalPcs
            => th'[t].pc = "next"
         /\ th[t].pc = "next" /\ StepOf(t) /\ th'[t].pc # "next_run" =>
               running_job # NULL \/ list_empty(Heap, TodoHead)
         /\ th[t].pc = "next_run" /\ StepOf(t) /\ th'[t].pc # "next_fail" =>
               hw_job' = th[t].njob /\ job'[th[t].njob].ret = 0]_vars

\* C16 happens: the job of a commit failed in rve_job_run and was counted,
\* and the same call of rve_job_next has popped the job behind it.
C16_Witness ==
    \E t \in Clients :
        /\ th[t].pc = "next_run" /\ th[t].njob # th[t].job
        /\ running_job = th[t].njob
        /\ job[th[t].job].ret = -1 /\ job[th[t].job].fins = 1

\* C17: when rve_job_run failed for the job a synchronous commit submitted
\* (job->ret < 0), that commit does not return success, whichever thread
\* dispatched the job.
C17_SetupFailureReported ==
    [][\A t \in Clients :
         /\ th[t].pc = "wait" /\ StepOf(t)
         /\ job[th[t].job].live /\ job[th[t].job].ctx = th[t].ctx
         /\ job[th[t].job].ret < 0
         => ~(Returns(t, "commit") /\ last_return'.ret = "OK")]_vars

\* C18: a synchronous commit whose job a cancel of its context took out of
\* the running slot and reset does not return success.
C18_CancelledCommitFails ==
    [][\A t \in Clients :
         /\ StepOf(t) /\ Returns(t, "commit") /\ th[t].job # NULL
         /\ \E u \in Clients \ {t} :
               /\ th[u].op = "cancel" /\ th[u].ctx = th[t].ctx
               /\ th[u].sjob = th[t].job
         => last_return'.ret # "OK"]_vars

\* C20: the finished count of a context never exceeds its batch count.
C20_FinishedWithinTotal ==
    \A c \in CtxObjs :
        ctx[c].live => ctx[c].finished_job_count <= ctx[c].cmd_num

\* C21: every context the registry reaches through a handle has a reference
\* count of at least 1; stated for the contexts a cancel has just been
\* handed by rve_internal_ctx_lookup and that are still registered.
C21_RegisteredHasReference ==
    \A t \in Clients :
        /\ th[t].pc = "kref_put" /\ th[t].op = "cancel"
        /\ ctx[th[t].ctx].id \in Handles /\ idr[ctx[th[t].ctx].id] = th[t].ctx
        => ctx[th[t].ctx].refcount >= 1

\* C22: every job linked in the pending queue belongs to a context that
\* has not been freed.
C22_PendingJobHasLiveContext ==
    \A j \in Range(Pending) \cap JobObjs :
        job[j].ctx # NULL /\ ctx[job[j].ctx].live

\* C23: the context a client is configuring or committing is not freed
\* while the client is still inside that call.
C23_ContextOutlivesItsUsers ==
    \A t \in Clients :
        th[t].op \in {"config", "commit"} /\ th[t].pc # "idle" /\ th[t].ctx # NULL
        => ctx[th[t].ctx].live

\* C24: the priority of every job, pending or running, lies between
\* RVE_SCHED_PRIORITY_DEFAULT and RVE_SCHED_PRIORITY_MAX.
C24_PriorityInRange ==
    \A j \in JobObjs :
        IsPending(j) \/ running_job = j
        => /\ job[j].priority >= RVE_SCHED_PRIORITY_DEFAULT
           /\ job[j].priority <= RVE_SCHED_PRIORITY_MAX

\* The first position in queue q whose entry has a priority strictly below
\* p, or the position behind the tail when there is none.
RECURSIVE FirstLower(_, _, _)
FirstLower(q, p, i) ==
    IF i > Len(q) THEN i
    ELSE IF job[q[i]].priority < p THEN i
    ELSE FirstLower(q, p, i + 1)

\* The step is an enqueue, by the priority scan, of a job with a
\* non-default priority on a non-empty queue.
ScanInsert ==
    /\ last_return'.op = "schedule" /\ last_return'.job # NULL
    /\ Pending # <<>>
    /\ job'[last_return'.job].enq_priority # RVE_SCHED_PRIORITY_DEFAULT

\* C25: a job of non-default priority enqueued on a non-empty queue goes
\* immediately before the first entry of strictly lower priority, or to the
\* tail when there is none, and the entries already queued keep their
\* relative order.
C25_InsertBeforeFirstLower ==
    [][ScanInsert =>
          LET j == last_return'.job
              k == FirstLower(Pending, job'[j].enq_priority, 1)
          IN Pending' = SubSeq(Pending, 1, k - 1) \o <<j>>
                           \o SubSeq(Pending, k, Len(Pending))]_vars

\* C26: an insertion by the priority scan adds exactly one to the priority
\* of every entry that was queued at or after the first entry of strictly
\* lower priority, and leaves the priorities of the entries ahead of it and
\* of the inserted job as they were.
C26_InflationFrame ==
    [][ScanInsert =>
          LET j == last_return'.job
              k == FirstLower(Pending, job'[j].enq_priority, 1)
          IN /\ \A i \in 1..Len(Pending) :
                   job'[Pending[i]].priority
                      = job[Pending[i]].priority + (IF i >= k THEN 1 ELSE 0)
             /\ job'[j].priority = job'[j].enq_priority]_vars

\* The step is an enqueue on the cheap path: the job has the default
\* priority or the queue is empty.
TailAppend ==
    /\ last_return'.op = "schedule" /\ last_return'.job # NULL
    /\ \/ Pending = <<>>
       \/ job'[last_return'.job].enq_priority = RVE_SCHED_PRIORITY_DEFAULT

\* C27: a job of default priority, or any job on an empty queue, is
\* appended at the tail; the entries already queued keep their order and
\* their priorities, and job_count grows by exactly 1.
C27_CheapPathAppends ==
    [][TailAppend =>
          /\ Pending' = Append(Pending, last_return'.job)
          /\ \A i \in 1..Len(Pending) :
                job'[Pending[i]].priority = job[Pending[i]].priority
          /\ job'[last_return'.job].priority = job'[last_return'.job].enq_priority
          /\ job_count' = job_count + 1]_vars

\* C27 happens: a job of default priority has just been appended behind
\* two queued entries, the first of them of a higher priority.
C27_Witness ==
    /\ last_return.op = "schedule" /\ last_return.job # NULL
    /\ job[last_return.job].enq_priority = RVE_SCHED_PRIORITY_DEFAULT
    /\ Len(Pending) >= 3 /\ Pending[Len(Pending)] = last_return.job
    /\ job[Pending[1]].priority > RVE_SCHED_PRIORITY_DEFAULT

\* No scheduler operation is in progress: every thread is outside the
\* driver or asleep in rve_job_wait, and no interrupt is waiting to be
\* handled.
SchedulerQuiet ==
    /\ \A t \in AllThreads : th[t].pc \in {"idle", "wait"}
    /\ ~irq_pending

\* C28: while no scheduler operation is in progress, a non-empty pending
\* queue implies an occupied running slot.
C28_EngineNeverIdles ==
    SchedulerQuiet /\ ~list_empty(Heap, TodoHead) => running_job # NULL

\* Job j is in the pending queue or the running slot and belongs to
\* context c.
InSchedulerFor(j, c) ==
    (IsPending(j) \/ running_job = j) /\ job[j].ctx = c

\* What the release does at the scheduler, step by step: the walk leaves
\* the jobs of other contexts queued in the same order with the same
\* priorities; a job of the context that was running is taken out of the
\* slot, the engine is reset and the job is handed to
\* rve_internal_ctx_signal with rve_job_next to follow.
ReleaseWalkEffects ==
    [][\A t \in Clients :
         /\ th[t].op = "cancel" /\ th[t].pc = "rel_sched" /\ StepOf(t) =>
               /\ Pending' = SelectSeq(Pending, LAMBDA j : job[j].ctx # th[t].ctx)
               /\ \A j \in Range(Pending') : job'[j].priority = job[j].priority
               /\ running_job # NULL /\ job[running_job].ctx = th[t].ctx =>
                     running_job' = NULL /\ th'[t].pc = "rel_reset"
         /\ th[t].op = "cancel" /\ th[t].pc = "rel_reset" /\ StepOf(t) =>
               /\ hw_job' = NULL
               /\ th'[t].pc = "sig" /\ th'[t].sigret = "next"
               /\ th'[t].sjob = th[t].sjob]_vars

\* C29: once a cancel that found its context running has completed, no job
\* of that context is in the pending queue or the running slot.
C29_NoJobAfterCancel ==
    \A c \in CtxObjs :
        ~ctx[c].live /\ ctx[c].reaped => \A j \in JobObjs : ~InSchedulerFor(j, c)

\* C30: the interrupt path that finds the running slot already emptied
\* never uses the absent job: rve_job_done does not read through a NULL
\* running_job.
C30_LateInterruptIsNoOp ==
    th[IrqThread].pc # "oops"

\* C31: the soft reset a timed-out rve_job_wait does for its job never
\* stops the engine while the engine executes another job.
C31_ResetOnlyForRunningJob ==
    [][\A t \in Clients :
         /\ th[t].pc = "wait" /\ StepOf(t)
         /\ th'[t].pc = "abort" /\ th'[t].ret = "EBUSY"
         => hw_job \in {NULL, th[t].job}]_vars

\* The step frees job j.
Frees(j) == job[j].live /\ ~job'[j].live

\* Job j is somewhere between its enqueue and the end of its finalization:
\* linked in the pending queue, in the running slot, executed by the
\* engine, or held by a thread that is dispatching or signalling it.
InFlight(j) ==
    \/ IsPending(j)
    \/ running_job = j
    \/ hw_job = j
    \/ \E t \in AllThreads : th[t].njob = j \/ th[t].sjob = j

\* C32: a job is freed only after it has reached a terminal state: once
\* the step that frees it is over, it is no longer in flight.
C32_ReapedWhenTerminal ==
    [][\A j \in JobObjs : Frees(j) => ~InFlight(j)']_vars

\* Thread t waits at a lock another thread holds.
Blocked(t) ==
    /\ th[t].pc = "locks"
    /\ NextLockCall(t).a = "acq"
    /\ \E u \in AllThreads \ {t} : NextLockCall(t).l \in Held(u)

\* C33: no thread acquires irq_lock while it holds a context lock, and no
\* cycle of lock waits is reached: whenever some thread is inside the
\* driver, some thread inside the driver is not blocked.
C33_NoLockInversion ==
    /\ \A t \in AllThreads :
          (th[t].pc = "locks" /\ \E c \in CtxObjs : ctx_lock(c) \in Held(t))
          => NextLockCall(t) # [a |-> "acq", l |-> irq_lock]
    /\ (\E t \in AllThreads : th[t].pc = "locks")
          => \E t \in AllThreads : th[t].pc = "locks" /\ ~Blocked(t)

\* C33 happens: one thread holds irq_lock, another holds the lock of a
\* context, and the third waits for one of the two.
C33_Witness ==
    \E t, u, v \in AllThreads :
        /\ t # u /\ v \notin {t, u}
        /\ irq_lock \in Held(t)
        /\ \E c \in CtxObjs : ctx_lock(c) \in Held(u)
        /\ Blocked(v)

\* C34: when a cancel has destroyed a context, every regcmd_data buffer
\* that rve_job_config_by_user_ctx allocated for it has been freed.
C34_NoPayloadLeak ==
    /\ last_return.op = "cancel" /\ last_return.ctx # NULL
    /\ ~ctx[last_return.ctx].live
    => ctx[last_return.ctx].payloads = 0

\* C35: no freed job is linked in the pending queue or installed in the
\* running slot.
C35_NoFreedJobInScheduler ==
    \A j \in JobObjs :
        IsPending(j) \/ running_job = j => job[j].live

\* C36: whenever rve_job_next has rve_job_run start the engine for a job,
\* the engine is not still executing a job started before.
C36_EngineIdleAtStart ==
    [][\A t \in AllThreads :
         /\ th[t].pc = "next_run" /\ StepOf(t)
         /\ th'[t].pc # "next_fail" /\ hw_job' = th[t].njob
         => hw_job = NULL]_vars

\* C37: when a synchronous commit returns success from rve_job_wait, the
\* is_running flag of its context is clear, unless another commit of the
\* same context has set it again in the meantime.
C37_CommitReturnsIdleCtx ==
    /\ last_return.op = "commit" /\ last_return.from = "wait"
    /\ last_return.ret = "OK" /\ last_return.ctx # NULL
    => \/ ~ctx[last_return.ctx].is_running
       \/ \E u \in Clients : th[u].op = "commit" /\ th[u].ctx = last_return.ctx

\* No thread is working on context c or on one of its jobs.
NobodyAt(c) ==
    \A t \in AllThreads :
        /\ th[t].ctx # c /\ th[t].sctx # c
        /\ \A j \in {th[t].job, th[t].njob, th[t].sjob} \ {NULL} : job[j].ctx # c

\* C38: once every call on a context has returned and none of its jobs is
\* pending, running or on the engine, the is_running flag of the context is
\* clear.
C38_RunningFlagCleared ==
    \A c \in CtxObjs :
        /\ ctx[c].live /\ NobodyAt(c)
        /\ hw_job = NULL /\ ~irq_pending
        /\ \A j \in JobObjs : ~InSchedulerFor(j, c)
        => ~ctx[c].is_running

\* C39: rve_job_config_by_user_ctx stores the configuration of a context
\* only while the context is not running.
C39_NoConfigWriteWhileRunning ==
    [][\A t \in Clients :
         /\ th[t].pc = "cfg_write" /\ StepOf(t)
         /\ Returns(t, "config") /\ last_return'.ret = "OK"
         => ~ctx[th[t].ctx].is_running]_vars

\* The jobs a forward walk from the head of todo_list passes, each counted
\* once also when the walk never comes back to the head.
Linked ==
    Range(list_walk(Heap, todo_list.next, Cardinality(JobObjs) + 1)) \ {TodoHead}

\* C40: job_count equals the number of jobs linked in todo_list whenever
\* irq_lock is free (every action of the model holds it from start to end).
C40_CountMatchesQueue ==
    job_count = Cardinality(Linked)

====
